---- MODULE Spec2Model ----
(***************************************************************************)
(* State machine of the SimBricks main runner                              *)
(* (symphony/runner/simbricks/runner/main_runner/__main__.py):             *)
(* the event pump (_handel_events), the executor event router              *)
(* (_handle_fragment_runner_events), the per-handle reader tasks, the      *)
(* callback tables and the run registry.  Every action is one segment of   *)
(* a coroutine between two suspension points of the asyncio event loop.    *)
(***************************************************************************)
EXTENDS Integers, Sequences, FiniteSets, TLC

\* ------------------------------------------------------------------ bounds
MaxEvents == 2      \* events the backend creates in one behaviour
MaxEmit == 2        \* batches the executors produce in one behaviour
MaxFaults == 1      \* failures of external calls in one behaviour
MaxHandles == 3     \* fragment runner handles spawned in one behaviour
MaxCallbacks == 5   \* EventCallback objects constructed in one behaviour

\* ------------------------------------------------------------------ inputs
RunIds == {1}            \* run ids of the backend's events
EmittedRunIds == {1, 2}  \* run ids the executors' output artifact events carry
NoTag == "none"
\* fragment_executor_tag lists of the START_RUN events the backend dispatches
StartShapes == { <<NoTag>>, <<NoTag, "local">>, <<"docker">>, <<"local", "docker">> }
\* those of them whose instantiation declares input artifact paths
StartShapesWithArtifact == { <<NoTag, "local">>, <<"local", "docker">> }
RunFragmentIds == {1, 2}
EmittedRunStates == {"RUNNING", "COMPLETED"}
ReplyStatuses == {"COMPLETED", "ERROR"}

\* _available_fragment_executors / _fragment_executor_configs after
\* _load_configuration: one configured executor, "local"
AvailableFragmentExecutors == <<"local">>
FragmentExecutorConfigs == {AvailableFragmentExecutors[i] : i \in 1..Len(AvailableFragmentExecutors)}

\* schemas.RunState, in its order; a state >= COMPLETED is terminal
RunStateOrder == <<"SPAWNED", "STARTING", "RUNNING", "COMPLETED", "ERROR", "CANCELLED">>
Rank(s) == CHOOSE i \in 1..Len(RunStateOrder) : RunStateOrder[i] = s
BelowCompleted(s) == Rank(s) < Rank("COMPLETED")

\* the four callback tables of a handle
Directions == {"create", "update", "delete", "query"}

\* ------------------------------------------------------------------ helpers
Range(s) == {s[i] : i \in 1..Len(s)}
RECURSIVE Count(_, _)
Count(s, x) == IF s = <<>> THEN 0 ELSE (IF Head(s) = x THEN 1 ELSE 0) + Count(Tail(s), x)
RECURSIVE SetToSeq(_)
SetToSeq(S) == IF S = {} THEN <<>>
               ELSE LET m == CHOOSE x \in S : \A y \in S : x <= y
                    IN <<m>> \o SetToSeq(S \ {m})

VARIABLES
    events,     \* backend: event id -> [kind, run_id, tags, status, updates received]
    rc,         \* calls made on the backend client (RunnerClient / SimBricksClient)
    run_map,    \* MainRunner._run_map: run id -> MainRun
    handles,    \* every FragmentRunner constructed, by handle id
    tables,     \* the four callback tables of every handle
    pool,       \* MainRunner.fragment_runners: executor name -> set of handle ids
    callbacks,  \* every EventCallback constructed, by callback id
    queue,      \* MainRunner.fragment_runner_events
    router,     \* position of _handle_fragment_runner_events
    pump,       \* position of _handel_events
    routed,     \* the batch the router dequeued last, and what it did with it
    main,       \* position of MainRunner.run
    budget      \* what the environment has used of its bounds

vars == <<events, rc, run_map, handles, tables, pool, callbacks, queue, router, pump, routed, main, budget>>

NoEvent == [name |-> "none", id |-> 0, status |-> "none", run_id |-> 0, rf |-> 0, state |-> "none"]

\* inst_artifact = None
NoArtifact == [of |-> 0]
EmptyTables == [d \in Directions |-> <<>>]
NoRouted == [h |-> 0, seq |-> 0, etype |-> "none", ev |-> NoEvent, matched |-> "none", cb |-> 0, forwarded |-> 0]

Init ==
    /\ events = <<>>
    /\ rc = [update_events |-> 0, update_run |-> <<>>, heartbeats |-> 0, uploads |-> 0, inst_fetches |-> 0]
    /\ run_map = <<>>
    /\ handles = <<>>
    /\ tables = <<>>
    /\ pool = [n \in FragmentExecutorConfigs |-> {}]
    /\ callbacks = <<>>
    /\ queue = <<>>
    /\ router = [pc |-> "idle", cb |-> 0]
    /\ pump = [pc |-> "sleep", sweep |-> <<>>, todo |-> <<>>, updates |-> <<>>,
               cur |-> 0, frm |-> <<>>, waiting |-> {}, ctx |-> "none", inst |-> NoArtifact]
    /\ routed = NoRouted
    /\ main = "running"
    /\ budget = [emit |-> 0, faults |-> 0]

\* ------------------------------------------------------------------ callbacks
\* EventCallback.__init__: handler.setdefault(event_type, set()).add(self),
\* for every handler (the table `d` of every handle of `hs`)
RECURSIVE InstallIn(_, _, _, _, _)
InstallIn(T, hs, d, etype, cb) ==
    IF hs = <<>> THEN T
    ELSE LET h == Head(hs)
             old == IF etype \in DOMAIN T[h][d] THEN T[h][d][etype] ELSE {}
             new == [t \in DOMAIN T[h][d] \cup {etype} |->
                        IF t = etype THEN old \cup {cb} ELSE T[h][d][t]]
         IN InstallIn([T EXCEPT ![h][d] = new], Tail(hs), d, etype, cb)

\* EventCallback.remove_callback: handler[event_type].remove(self), handler by
\* handler; a missing key or a missing member raises KeyError and ends the loop
RECURSIVE RemoveFrom(_, _, _, _, _)
RemoveFrom(T, hs, d, etype, cb) ==
    IF hs = <<>> THEN [tables |-> T, ok |-> TRUE]
    ELSE LET h == Head(hs)
         IN IF etype \in DOMAIN T[h][d] /\ cb \in T[h][d][etype]
            THEN RemoveFrom([T EXCEPT ![h][d][etype] = @ \ {cb}], Tail(hs), d, etype, cb)
            ELSE [tables |-> T, ok |-> FALSE]

\* variant of remove_callback: the callback stays in its tables
remove_callback_skipped(T, cb) == [tables |-> T, ok |-> TRUE]
remove_callback(T, cb) ==
    RemoveFrom(T, callbacks[cb].handlers, callbacks[cb].dir, callbacks[cb].event_type, cb)

\* the tables (handle, direction) that hold callback cb
HoldersOf(T, cb) ==
    {hd \in (DOMAIN T) \X Directions : \E t \in DOMAIN T[hd[1]][hd[2]] : cb \in T[hd[1]][hd[2]][t]}

NewCallback(kind, d, etype, hs, eid, n, run) ==
    [kind |-> kind, dir |-> d, event_type |-> etype, handlers |-> hs, event_id |-> eid,
     runners |-> n, received_updates |-> 0, success |-> TRUE, status |-> "PENDING",
     run_id |-> run, sent |-> 0, inputs |-> <<>>]

\* XxxCallback.passthrough()
passthrough(kind) ==
    CASE kind = "agg" -> FALSE
      [] kind = "state" -> TRUE
      [] kind = "artifact" -> FALSE

\* the first test of XxxCallback.callback(event): does the callback take the event
Matches(cb, ev) ==
    CASE callbacks[cb].kind = "agg" -> callbacks[cb].event_id = ev.id
      [] callbacks[cb].kind = "state" -> ev.run_id = callbacks[cb].run_id
      [] callbacks[cb].kind = "artifact" -> ev.run_id = callbacks[cb].run_id

\* ------------------------------------------------------------------ backend
\* the backend's bookkeeping of an update_events call: every updated event takes
\* the status the update carries
RECURSIVE ApplyUpdates(_, _, _)
ApplyUpdates(evs, ups, by) ==
    IF ups = <<>> THEN evs
    ELSE LET u == Head(ups)
         IN ApplyUpdates(IF u.id \in DOMAIN evs
                         THEN [evs EXCEPT ![u.id].status = u.status,
                                          ![u.id].updates = Append(@, [by |-> by, status |-> u.status])]
                         ELSE evs,
                         Tail(ups), by)

Upd(id, status) == [id |-> id, status |-> status]

\* ------------------------------------------------------------------ executors and readers
\* a FragmentRunnerEvent; seq numbers the batches of one executor as it produces them
Batch(h, etype, ev) == [h |-> h, seq |-> handles[h].produced + 1, etype |-> etype, ev |-> ev]

\* what an executor may produce next (FragmentRunnerPlugin.get_events)
Replies(h) ==
    {Batch(h, "ApiEventUpdate", [NoEvent EXCEPT !.name = "ApiRunEventUpdate", !.id = e, !.status = s]) :
        e \in {x \in Range(handles[h].recv) : Count(handles[h].recv, x) > Count(handles[h].repl, x)},
        s \in ReplyStatuses}
StateEvents(h) ==
    {Batch(h, "ApiEventCreate", [NoEvent EXCEPT !.name = "ApiRunFragmentStateEventCreate",
                                 !.run_id = handles[h].run, !.rf = f, !.state = s]) :
        f \in RunFragmentIds, s \in EmittedRunStates}
ArtifactEvents(h) ==
    {Batch(h, "ApiEventCreate", [NoEvent EXCEPT !.name = "ApiRunFragmentOutputArtifactEventCreate",
                                 !.run_id = r, !.rf = handles[h].rf]) : r \in EmittedRunIds}
OtherEvents(h) ==
    {Batch(h, t, [NoEvent EXCEPT !.name = "Other"]) : t \in {"ApiEventQuery", "ApiEventRead"}}

\* variant of put: the batch goes to the front of the queue
put_front(q, b) == <<b>> \o q
\* asyncio.Queue.put on the unbounded fragment_runner_events queue
put(q, b) == Append(q, b)

\* _read_fragment_runner_events, one turn of its loop: get_events() returns a
\* batch and the reader puts it on the (unbounded) queue
ReaderPut(h) ==
    /\ handles[h].reader = "running"
    /\ budget.emit < MaxEmit
    /\ \E b \in Replies(h) \cup StateEvents(h) \cup ArtifactEvents(h) \cup OtherEvents(h) :
          /\ queue' = put(queue, b)
          /\ handles' = IF b.etype = "ApiEventUpdate"
                        THEN [handles EXCEPT ![h].produced = @ + 1, ![h].repl = Append(@, b.ev.id)]
                        ELSE [handles EXCEPT ![h].produced = @ + 1]
    /\ budget' = [budget EXCEPT !.emit = @ + 1]
    /\ UNCHANGED <<events, rc, run_map, tables, pool, callbacks, router, pump, routed, main>>

\* _read_fragment_runner_events: get_events() raises; logged and re-raised, the
\* reader task ends with the exception
ReaderFail(h) ==
    /\ handles[h].reader = "running"
    /\ budget.faults < MaxFaults
    /\ handles' = [handles EXCEPT ![h].reader = "failed"]
    /\ budget' = [budget EXCEPT !.faults = @ + 1]
    /\ UNCHANGED <<events, rc, run_map, tables, pool, callbacks, queue, router, pump, routed, main>>

\* ------------------------------------------------------------------ router
DirOf(etype) ==
    CASE etype = "ApiEventCreate" -> "create"
      [] etype = "ApiEventUpdate" -> "update"
      [] etype = "ApiEventDelete" -> "delete"
      [] etype = "ApiEventQuery" -> "query"

\* _apply_callbacks: the callbacks of the handle's table that return true for
\* the event; the set is iterated in no fixed order and the loop breaks at the
\* first of them
Takers(h, d, ev) ==
    IF ev.name \in DOMAIN tables[h][d]
    THEN {cb \in tables[h][d][ev.name] : Matches(cb, ev)}
    ELSE {}

Routed(b, kind, cb, fwd) ==
    [h |-> b.h, seq |-> b.seq, etype |-> b.etype, ev |-> b.ev, matched |-> kind, cb |-> cb, forwarded |-> fwd]

\* the backend RPC of _handle_fragment_runner_events for a non-empty
\* passthrough bundle: create_events / update_events / delete_events / fetch_events
ForwardRc(b) ==
    IF b.etype = "ApiEventUpdate"
    THEN [rc EXCEPT !.update_events = @ + 1]
    ELSE rc
ForwardEvents(b) ==
    IF b.etype = "ApiEventUpdate" THEN ApplyUpdates(events, <<Upd(b.ev.id, b.ev.status)>>, "router") ELSE events
\* variant of ForwardHandles: no passthrough bundle reaches the backend
ForwardHandlesNone(b) == handles
\* what create_events / fetch_events return is sent back to the originating
\* executor as ApiEventRead
ForwardHandles(b) ==
    IF b.etype \in {"ApiEventCreate", "ApiEventQuery"}
    THEN [handles EXCEPT ![b.h].readbacks = @ + 1]
    ELSE handles

\* variant of RuntimeError: the router goes on to the next batch
RuntimeErrorIgnored(w) == w
\* raise RuntimeError(...) in a worker: the exception ends the task
RuntimeError(w) == [w EXCEPT !.pc = "failed"]

\* case ApiEventRead: raise RuntimeError
RouterRead ==
    /\ router.pc = "idle" /\ queue # <<>>
    /\ Head(queue).etype = "ApiEventRead"
    /\ queue' = Tail(queue)
    /\ router' = RuntimeError(router)
    /\ routed' = Routed(Head(queue), "none", 0, 0)
    /\ UNCHANGED <<events, rc, run_map, handles, tables, pool, callbacks, pump, budget, main>>

\* no callback returns true (or the table has no entry for the event type):
\* the event goes into the passthrough bundle, which is sent to the backend
RouterNoMatch ==
    /\ router.pc = "idle" /\ queue # <<>>
    /\ LET b == Head(queue) IN
        /\ b.etype # "ApiEventRead"
        /\ Takers(b.h, DirOf(b.etype), b.ev) = {}
        /\ rc' = ForwardRc(b)
        /\ events' = ForwardEvents(b)
        /\ handles' = ForwardHandles(b)
        /\ routed' = Routed(b, "none", 0, 1)
    /\ queue' = Tail(queue)
    /\ UNCHANGED <<run_map, tables, pool, callbacks, router, pump, budget, main>>

\* variant of AggSuccess: only the update in hand decides
AggSuccessLast(success, status) == status = "COMPLETED"
\* BundleUpdatesEventCallback.callback, lines 90-91: success after this update
AggSuccess(success, status) == success /\ status = "COMPLETED"
\* variant of AggDone: the first update already counts as the last
AggDoneEarly(received, runners) == received >= 1
\* line 93: this update is the last one awaited
AggDone(received, runners) == received = runners
\* lines 95-98: the status the aggregator's update takes
AggStatus(success) == IF success THEN "COMPLETED" ELSE "ERROR"

\* variant of AggAwait: the router is free for the next batch while the
\* aggregator's update call is under way
AggAwaitFree(cb) == [pc |-> "idle", cb |-> 0]
\* line 100: the router is suspended inside the aggregator's callback until
\* rc.update_events returns
AggAwait(cb) == [pc |-> "agg_await", cb |-> cb]

\* BundleUpdatesEventCallback.callback returns true: up to the await of
\* rc.update_events at the last update, or to the return
RouterAggMatch ==
    /\ router.pc = "idle" /\ queue # <<>>
    /\ LET b == Head(queue) IN
        /\ b.etype # "ApiEventRead"
        /\ \E cb \in Takers(b.h, DirOf(b.etype), b.ev) :
            /\ callbacks[cb].kind = "agg"
            /\ routed' = Routed(b, "agg", cb, 0)
            /\ IF ~(callbacks[cb].received_updates < callbacks[cb].runners)
               THEN \* the assert fails
                    /\ router' = [pc |-> "failed", cb |-> cb]
                    /\ UNCHANGED <<callbacks, rc, events, pump>>
               ELSE LET received == callbacks[cb].received_updates + 1
                        success == AggSuccess(callbacks[cb].success, b.ev.status)
                        done == AggDone(received, callbacks[cb].runners)
                        status == IF done THEN AggStatus(success) ELSE callbacks[cb].status
                        ups == <<Upd(callbacks[cb].event_id, status)>>
                    IN /\ callbacks' = [callbacks EXCEPT ![cb].received_updates = received,
                                                         ![cb].success = success,
                                                         ![cb].inputs = Append(@, b.ev.status),
                                                         ![cb].status = status,
                                                         ![cb].sent = IF done THEN @ + 1 ELSE @]
                       /\ rc' = IF done THEN [rc EXCEPT !.update_events = @ + 1] ELSE rc
                       /\ events' = IF done THEN ApplyUpdates(events, ups, "agg") ELSE events
                       \* update_event is the object the pump may hold in its batch
                       /\ pump' = IF done
                                  THEN [pump EXCEPT !.updates = [i \in DOMAIN @ |->
                                            IF @[i].obj = cb THEN [@[i] EXCEPT !.status = status] ELSE @[i]]]
                                  ELSE pump
                       /\ router' = IF done THEN AggAwait(cb) ELSE router
    /\ queue' = Tail(queue)
    /\ UNCHANGED <<run_map, handles, tables, pool, budget, main>>

\* BundleUpdatesEventCallback.callback after the await: remove_callback()
RouterAggResume ==
    /\ router.pc = "agg_await"
    /\ LET r == remove_callback(tables, router.cb) IN
        /\ tables' = r.tables
        /\ router' = [pc |-> IF r.ok THEN "idle" ELSE "failed", cb |-> 0]
    /\ UNCHANGED <<events, rc, run_map, handles, pool, callbacks, queue, pump, routed, budget, main>>

\* RunFragmentStateCallback.callback returns true; passthrough, so the event is
\* sent on with create_events
RouterStateMatch ==
    /\ router.pc = "idle" /\ queue # <<>>
    /\ LET b == Head(queue) IN
        /\ b.etype # "ApiEventRead"
        /\ \E cb \in Takers(b.h, DirOf(b.etype), b.ev) :
            /\ callbacks[cb].kind = "state"
            /\ LET r == callbacks[cb].run_id
                   st == run_map[r].fragment_run_state
               IN run_map' = [run_map EXCEPT ![r].fragment_run_state =
                                 [f \in DOMAIN st \cup {b.ev.rf} |-> IF f = b.ev.rf THEN b.ev.state ELSE st[f]]]
            /\ routed' = Routed(b, "state", cb, IF passthrough("state") THEN 1 ELSE 0)
            /\ handles' = IF passthrough("state") THEN ForwardHandles(b) ELSE handles
    /\ queue' = Tail(queue)
    /\ UNCHANGED <<events, rc, tables, pool, callbacks, router, pump, budget, main>>

\* RunFragmentOutputArtifactCallback.callback returns true: up to the await of
\* set_run_fragment_output_artifact_raw
RouterArtifactMatch ==
    /\ router.pc = "idle" /\ queue # <<>>
    /\ LET b == Head(queue) IN
        /\ b.etype # "ApiEventRead"
        /\ \E cb \in Takers(b.h, DirOf(b.etype), b.ev) :
            /\ callbacks[cb].kind = "artifact"
            /\ rc' = [rc EXCEPT !.uploads = @ + 1]
            /\ routed' = Routed(b, "artifact", cb, 0)
            /\ router' = [pc |-> "artifact_await", cb |-> cb]
    /\ queue' = Tail(queue)
    /\ UNCHANGED <<events, run_map, handles, tables, pool, callbacks, pump, budget, main>>

\* the upload returns; the callback returns true and the event is consumed
RouterArtifactResume ==
    /\ router.pc = "artifact_await"
    /\ router' = [pc |-> "idle", cb |-> 0]
    /\ UNCHANGED <<events, rc, run_map, handles, tables, pool, callbacks, queue, pump, routed, budget, main>>

\* ------------------------------------------------------------------ stopping handles
\* FragmentRunner.stop, from its start to its first suspension, for every stop
\* task just created (tasks created back to back take their first steps back to
\* back): the four tables are cleared and the reader is cancelled; awaiting a
\* reader that ended with an exception raises that exception out of stop()
StopFirstStep ==
    /\ \E h \in DOMAIN handles : handles[h].stop = "pending"
    /\ handles' = [h \in DOMAIN handles |->
                     IF handles[h].stop # "pending" THEN handles[h]
                     ELSE IF handles[h].reader = "failed"
                          THEN [handles[h] EXCEPT !.stop = "raised"]
                          ELSE [handles[h] EXCEPT !.stop = "awaiting", !.reader = "cancelled"]]
    /\ tables' = [h \in DOMAIN tables |-> IF handles[h].stop = "pending" THEN EmptyTables ELSE tables[h]]
    /\ UNCHANGED <<events, rc, run_map, pool, callbacks, queue, router, pump, routed, budget, main>>

\* FragmentRunner.stop after the reader has ended: await fragment_runner.stop()
StopExecutor(h) ==
    /\ handles[h].stop = "awaiting"
    /\ handles' = [handles EXCEPT ![h].stop = "done", ![h].stop_calls = @ + 1]
    /\ UNCHANGED <<events, rc, run_map, tables, pool, callbacks, queue, router, pump, routed, budget, main>>

\* _stop_fragment_runners up to its gather: a stop task per handle, and the
\* handle leaves the pool
StopTasks(H, hs) == [h \in DOMAIN H |-> IF h \in hs THEN [H[h] EXCEPT !.stop = "pending"] ELSE H[h]]
PoolWithout(P, hs) == [n \in DOMAIN P |-> P[n] \ hs]

\* ------------------------------------------------------------------ pump
Idle(p) == [p EXCEPT !.cur = 0, !.frm = <<>>, !.waiting = {}, !.ctx = "none", !.inst = NoArtifact]
TickUpdate(id, status, obj) == [id |-> id, status |-> status, obj |-> obj]

\* the three queries of the tick: every event that is PENDING, by key
Pending(kinds) == SetToSeq({e \in DOMAIN events : events[e].status = "PENDING" /\ events[e].kind \in kinds})
RunnerEventRead == Pending({"heartbeat"})
RunEventRead == Pending({"KILL", "SIMULATION_STATUS"})
RunEventStartRunRead == Pending({"START_RUN"})
\* the fetched bundle's keys come in whatever order the backend gives them
FetchOrders ==
    LET a == RunnerEventRead  b == RunEventRead  c == RunEventStartRunRead
    IN {a \o b \o c, a \o c \o b, b \o a \o c, b \o c \o a, c \o a \o b, c \o b \o a}

\* fetch_events returns: a new (empty) update bundle, then the handling of the
\* fetched events, or, with nothing fetched, the sleep
Fetch ==
    \E todo \in FetchOrders :
        pump' = [Idle(pump) EXCEPT !.pc = IF todo = <<>> THEN "sleep" ELSE "handle",
                                   !.todo = todo, !.updates = <<>>, !.sweep = <<>>]

\* variant of SendBatch: update_events is called whatever the batch holds
SendBatchAlways(rcv, batch) == [rcv EXCEPT !.update_events = @ + 1]
\* the end of the tick: update_events is called if the batch is not empty
SendBatch(rcv, batch) == IF batch # <<>> THEN [rcv EXCEPT !.update_events = @ + 1] ELSE rcv

\* the handling of the event in hand is over, with new calls on the backend
\* client (rcv) and new updates for the tick's batch (ups): the pump goes on to
\* the next fetched event or, after the last, sends the batch if it is not
\* empty (update_events) and sleeps
Proceed(rcv, ups) ==
    LET todo == Tail(pump.todo)
        batch == pump.updates \o ups
        sent == [i \in DOMAIN batch |-> Upd(batch[i].id, batch[i].status)]
    IN IF todo # <<>>
       THEN /\ pump' = [Idle(pump) EXCEPT !.pc = "handle", !.todo = todo, !.updates = batch]
            /\ rc' = rcv
            /\ UNCHANGED events
       ELSE /\ pump' = [Idle(pump) EXCEPT !.pc = "sleep", !.todo = todo, !.updates = batch]
            /\ rc' = SendBatch(rcv, batch)
            /\ events' = ApplyUpdates(events, sent, "pump")

\* variant of Finished: one fragment at or above COMPLETED is enough
FinishedAny(run) == \E f \in DOMAIN run.fragment_run_state : ~BelowCompleted(run.fragment_run_state[f])
\* the sweep's test of one run: no fragment state below COMPLETED
Finished(run) == \A f \in DOMAIN run.fragment_run_state : ~BelowCompleted(run.fragment_run_state[f])

\* the runs of the snapshot the sweep has still to look at, from the first
\* finished one on
RECURSIVE FromFirstFinished(_, _)
FromFirstFinished(rm, todo) ==
    IF todo = <<>> THEN <<>>
    ELSE IF Finished(rm[Head(todo)]) THEN todo ELSE FromFirstFinished(rm, Tail(todo))

\* the teardown of a finished run up to the await of _stop_fragment_runners:
\* the state and the artifact callback are removed, then a stop task is created
\* for every handle of the run and the handle leaves the pool
Teardown(r, rest) ==
    LET hs == Range(run_map[r].fragment_runner_map)
        r1 == remove_callback(tables, run_map[r].run_state_callback)
        r2 == remove_callback(r1.tables, run_map[r].output_artifact_callback)
    IN IF ~r1.ok \/ ~r2.ok
       THEN /\ pump' = [Idle(pump) EXCEPT !.pc = "failed"]
            /\ tables' = IF r1.ok THEN r2.tables ELSE r1.tables
            /\ UNCHANGED <<handles, pool>>
       ELSE /\ tables' = r2.tables
            /\ handles' = StopTasks(handles, hs)
            /\ pool' = PoolWithout(pool, hs)
            /\ pump' = [pump EXCEPT !.pc = "stopping", !.ctx = "sweep", !.cur = r,
                                    !.sweep = rest, !.waiting = hs]

\* the sweep of _handel_events over the run ids of `todo`, up to the pump's
\* next suspension: the await in the teardown of the first finished run, or,
\* with no finished run left, the fetch of the tick
SweepFrom(rm, todo) ==
    LET left == FromFirstFinished(rm, todo) IN
    IF left = <<>>
    THEN Fetch /\ UNCHANGED <<tables, handles, pool>>
    ELSE Teardown(Head(left), Tail(left))

\* asyncio.sleep returns: the next tick, from the sweep over
\* list(self._run_map.keys()) on
PumpWake ==
    /\ pump.pc = "sleep"
    /\ SweepFrom(run_map, SetToSeq(DOMAIN run_map))
    /\ UNCHANGED <<events, rc, run_map, callbacks, queue, router, routed, budget, main>>

\* the gather of the sweep's stop tasks raises: the exception leaves the pump
PumpSweepRaises ==
    /\ pump.pc = "stopping" /\ pump.ctx = "sweep"
    /\ \E h \in pump.waiting : handles[h].stop = "raised"
    /\ pump' = [Idle(pump) EXCEPT !.pc = "failed"]
    /\ UNCHANGED <<events, rc, run_map, handles, tables, pool, callbacks, queue, router, routed, budget, main>>

\* the gather of the sweep's stop tasks returns: the run is popped and the
\* sweep goes on
PumpSweepResume ==
    /\ pump.pc = "stopping" /\ pump.ctx = "sweep"
    /\ \A h \in pump.waiting : handles[h].stop = "done"
    /\ LET rm == [r \in DOMAIN run_map \ {pump.cur} |-> run_map[r]] IN
        /\ run_map' = rm
        /\ SweepFrom(rm, pump.sweep)
    /\ UNCHANGED <<events, rc, callbacks, queue, router, routed, budget, main>>

\* the backend creates an event for this runner (seen by the pump at its fetch)
NewEvent(kind, run, tags, paths) ==
    [kind |-> kind, run_id |-> run, tags |-> tags, inst_paths |-> paths, status |-> "PENDING", updates |-> <<>>]
BackendCreate ==
    /\ pump.pc = "sleep"
    /\ Len(events) < MaxEvents
    /\ \E ev \in {NewEvent("heartbeat", 0, <<>>, FALSE)}
                 \cup {NewEvent(k, r, <<>>, FALSE) : k \in {"KILL", "SIMULATION_STATUS"}, r \in RunIds}
                 \cup {NewEvent("START_RUN", r, t, t \in StartShapesWithArtifact) : r \in RunIds, t \in StartShapes} :
          events' = Append(events, ev)
    /\ UNCHANGED <<rc, run_map, handles, tables, pool, callbacks, queue, router, pump, routed, budget, main>>

Cur == events[Head(pump.todo)]
Handling(kinds) == pump.pc = "handle" /\ Cur.kind \in kinds

\* _handle_runner_events, heartbeat
PumpHeartbeat ==
    /\ Handling({"heartbeat"})
    /\ Proceed([rc EXCEPT !.heartbeats = @ + 1], <<TickUpdate(Head(pump.todo), "COMPLETED", 0)>>)
    /\ UNCHANGED <<run_map, handles, tables, pool, callbacks, queue, router, routed, budget, main>>

\* variant of UnknownRunUpdate: no update is added
UnknownRunUpdateNone(e) == <<>>
\* _handle_run_events, KILL / SIMULATION_STATUS of a run that is not registered
UnknownRunUpdate(e) == <<TickUpdate(e, "CANCELLED", 0)>>
PumpUnknownRun ==
    /\ Handling({"KILL", "SIMULATION_STATUS"})
    /\ Cur.run_id \notin DOMAIN run_map
    /\ Proceed(rc, UnknownRunUpdate(Head(pump.todo)))
    /\ UNCHANGED <<run_map, handles, tables, pool, callbacks, queue, router, routed, budget, main>>

\* send_events to every handle of hs
Deliver(H, hs, e) == [h \in DOMAIN H |-> IF h \in hs THEN [H[h] EXCEPT !.recv = Append(@, e)] ELSE H[h]]

\* _send_events_aggregate_updates: an aggregator over the update tables of the
\* run's handles, and the event sent to every one of them
PumpBroadcast ==
    /\ Handling({"KILL", "SIMULATION_STATUS"})
    /\ Cur.run_id \in DOMAIN run_map
    /\ Len(callbacks) < MaxCallbacks
    /\ LET e == Head(pump.todo)
           frm == run_map[Cur.run_id].fragment_runner_map
           cb == Len(callbacks) + 1
       IN /\ callbacks' = Append(callbacks,
                 NewCallback("agg", "update", "ApiRunEventUpdate", frm, e, Len(frm), Cur.run_id))
          /\ tables' = InstallIn(tables, frm, "update", "ApiRunEventUpdate", cb)
          /\ handles' = Deliver(handles, Range(frm), e)
    /\ Proceed(rc, <<>>)
    /\ UNCHANGED <<run_map, pool, queue, router, routed, budget, main>>

\* variant of StartDuplicateUpdate: the update is marked ERROR
StartDuplicateUpdateError(e) == <<TickUpdate(e, "ERROR", 0)>>
\* lines 404-405: the update of a START_RUN that cannot be started
StartDuplicateUpdate(e) == <<TickUpdate(e, "CANCELLED", 0)>>
\* _handle_run_events, START_RUN of a run that is registered
PumpStartDuplicate ==
    /\ Handling({"START_RUN"})
    /\ Cur.run_id \in DOMAIN run_map
    /\ Proceed(rc, StartDuplicateUpdate(Head(pump.todo)))
    /\ UNCHANGED <<run_map, handles, tables, pool, callbacks, queue, router, routed, budget, main>>

\* get_inst_input_artifact_raw(event.inst.id): what the backend holds for the
\* instantiation of event e
InstArtifact(e) == [of |-> e]
\* base64.b64encode(...).decode("utf-8") and its inverse
b64encode(a) == [b64 |-> a]
b64decode(x) == x.b64
\* _start_run, lines 284-286, which run before the first fragment is looked
\* at: the instantiation's input artifact is fetched if it declares paths
FetchesInst == pump.frm = <<>> /\ Cur.inst_paths
InstFetched(rcv) == IF FetchesInst THEN [rcv EXCEPT !.inst_fetches = @ + 1] ELSE rcv
inst_artifact == IF FetchesInst THEN InstArtifact(Head(pump.todo)) ELSE pump.inst

\* the except branch around _start_run: update_run(run_id, ERROR, "") and the
\* update, marked ERROR, added to the tick's batch; obj is the aggregator that
\* holds the same update object, if _start_run got as far as constructing it
StartFailedRc(r) == [InstFetched(rc) EXCEPT !.update_run = Append(@, [run_id |-> r, state |-> "ERROR"])]
StartFailedUpdate(e, obj) == <<TickUpdate(e, "ERROR", obj)>>
\* variant of StartFailed: the exception of _start_run leaves the pump
StartFailedRaises(obj) == pump' = [Idle(pump) EXCEPT !.pc = "failed"] /\ UNCHANGED <<rc, events>>
StartFailed(obj) == Proceed(StartFailedRc(Cur.run_id), StartFailedUpdate(Head(pump.todo), obj))

\* _start_run is in hand for a START_RUN of a run that is not registered
Starting ==
    /\ Handling({"START_RUN"})
    /\ Cur.run_id \notin DOMAIN run_map
    /\ Len(handles) + Len(Cur.tags) - Len(pump.frm) <= MaxHandles
    /\ Len(callbacks) + 3 <= MaxCallbacks

\* the fragment of the START_RUN that _start_run looks at next
SpawnTag == Cur.tags[Len(pump.frm) + 1]
UnknownTag(tag) == tag # NoTag /\ tag \notin FragmentExecutorConfigs
ExecutorFor(tag) == IF tag = NoTag THEN AvailableFragmentExecutors[1] ELSE tag

NewHandle(name, run, rf) ==
    [name |-> name, run |-> run, rf |-> rf, reader |-> "running", stop |-> "none",
     stop_calls |-> 0, recv |-> <<>>, start |-> <<>>, repl |-> <<>>, readbacks |-> 0, produced |-> 0]

\* MainRun.__init__
MainRun(frm, state_cb, artifact_cb) ==
    [fragment_runner_map |-> frm,
     fragment_run_state |-> [f \in DOMAIN frm |-> "SPAWNED"],
     run_state_callback |-> state_cb,
     output_artifact_callback |-> artifact_cb]

\* _start_run, a fragment whose tag is no configured executor: the handles
\* spawned so far are stopped (_stop_fragment_runners), then RuntimeError is
\* raised; with no handle spawned the gather is over at once
PumpStartUnknownTag ==
    /\ Starting /\ pump.ctx = "none"
    /\ UnknownTag(SpawnTag)
    /\ IF pump.frm = <<>>
       THEN /\ StartFailed(0)
            /\ UNCHANGED <<handles, pool>>
       ELSE /\ handles' = StopTasks(handles, Range(pump.frm))
            /\ pool' = PoolWithout(pool, Range(pump.frm))
            /\ pump' = [pump EXCEPT !.pc = "stopping", !.ctx = "start", !.waiting = Range(pump.frm)]
            /\ UNCHANGED <<rc, events>>
    /\ UNCHANGED <<run_map, tables, callbacks, queue, router, routed, budget, main>>

\* the gather of those stop tasks returns or raises: either way an exception
\* leaves _start_run
PumpStartStopResume ==
    /\ pump.pc = "stopping" /\ pump.ctx = "start"
    /\ \/ \E h \in pump.waiting : handles[h].stop = "raised"
       \/ \A h \in pump.waiting : handles[h].stop = "done"
    /\ StartFailed(0)
    /\ UNCHANGED <<run_map, handles, tables, pool, callbacks, queue, router, routed, budget, main>>

\* _start_run raises before the run is registered: a payload does not parse,
\* the instantiation's input artifact cannot be fetched, or the plugin's start
\* raises in _start_fragment_runner; the handles spawned before stay as they are
PumpStartFails ==
    /\ Starting
    /\ ~UnknownTag(SpawnTag)
    /\ budget.faults < MaxFaults
    /\ budget' = [budget EXCEPT !.faults = @ + 1]
    /\ StartFailed(0)
    /\ UNCHANGED <<run_map, handles, tables, pool, callbacks, queue, router, routed, main>>

\* the three callbacks _start_run constructs over the handles of the run
StartCallbacks(frm, e, run) ==
    << NewCallback("agg", "update", "ApiRunEventUpdate", frm, e, Len(frm), run),
       NewCallback("state", "create", "ApiRunFragmentStateEventCreate", frm, 0, 0, run),
       NewCallback("artifact", "create", "ApiRunFragmentOutputArtifactEventCreate", frm, 0, 0, run) >>
InstallStartCallbacks(T, frm, c) ==
    InstallIn(InstallIn(InstallIn(T,
        frm, "update", "ApiRunEventUpdate", c + 1),
        frm, "create", "ApiRunFragmentStateEventCreate", c + 2),
        frm, "create", "ApiRunFragmentOutputArtifactEventCreate", c + 3)

\* _start_fragment_runner for a fragment that is not the last: plugin started,
\* handle constructed, reader task created, handle added to the pool
PumpStartSpawn ==
    /\ Starting
    /\ ~UnknownTag(SpawnTag)
    /\ Len(pump.frm) + 1 < Len(Cur.tags)
    /\ LET h == Len(handles) + 1 IN
        /\ handles' = Append(handles, NewHandle(ExecutorFor(SpawnTag), Cur.run_id, Len(pump.frm) + 1))
        /\ tables' = Append(tables, EmptyTables)
        /\ pool' = [pool EXCEPT ![ExecutorFor(SpawnTag)] = @ \cup {h}]
        /\ pump' = [pump EXCEPT !.frm = Append(@, h), !.inst = inst_artifact]
        /\ rc' = InstFetched(rc)
    /\ UNCHANGED <<events, run_map, callbacks, queue, router, routed, budget, main>>

\* variant of FragmentsOf: the bundle keeps the whole fragment list
FragmentsAll(frm, i) == [j \in DOMAIN frm |-> j]
\* fragment_event.fragments = [rf]
FragmentsOf(frm, i) == <<i>>
\* the start bundle made for fragment i (lines 324-339)
StartBundle(frm, i, e, art) ==
    [id |-> e, fragments |-> FragmentsOf(frm, i),
     inst_input_artifact |-> IF art # NoArtifact THEN b64encode(art) ELSE NoArtifact]
\* send_events of the start bundles to the handles of the fragments `delivered`
DeliverStart(H, frm, delivered, e, art) ==
    [h \in DOMAIN H |->
        IF \E i \in delivered : frm[i] = h
        THEN LET i == CHOOSE i \in delivered : frm[i] = h
             IN [H[h] EXCEPT !.recv = Append(@, e), !.start = Append(@, StartBundle(frm, i, e, art))]
        ELSE H[h]]

\* _start_run from the last fragment's handle on: the handle is spawned, the
\* run is registered, its three callbacks are installed and the per-fragment
\* start bundles are sent; `delivered` are the handles whose bundle was sent
\* before a fragment's input artifact could not be fetched or a send_events
\* raised (all of them if nothing raised)
StartRun(delivered, ok) ==
    LET e == Head(pump.todo)
        run == Cur.run_id
        h == Len(handles) + 1
        frm == Append(pump.frm, h)
        c == Len(callbacks)
        H == Append(handles, NewHandle(ExecutorFor(SpawnTag), run, Len(frm)))
    IN /\ handles' = DeliverStart(H, frm, delivered, e, inst_artifact)
       /\ pool' = [pool EXCEPT ![ExecutorFor(SpawnTag)] = @ \cup {h}]
       /\ run_map' = [r \in DOMAIN run_map \cup {run} |->
                         IF r = run THEN MainRun(frm, c + 2, c + 3) ELSE run_map[r]]
       /\ callbacks' = callbacks \o StartCallbacks(frm, e, run)
       /\ tables' = InstallStartCallbacks(Append(tables, EmptyTables), frm, c)
       /\ IF ok THEN Proceed(InstFetched(rc), <<>>) ELSE StartFailed(c + 1)

PumpStartRun ==
    /\ Starting
    /\ ~UnknownTag(SpawnTag)
    /\ Len(pump.frm) + 1 = Len(Cur.tags)
    /\ StartRun(1..Len(Cur.tags), TRUE)
    /\ UNCHANGED <<queue, router, routed, budget, main>>

PumpStartDispatchFails ==
    /\ Starting
    /\ ~UnknownTag(SpawnTag)
    /\ Len(pump.frm) + 1 = Len(Cur.tags)
    /\ budget.faults < MaxFaults
    /\ budget' = [budget EXCEPT !.faults = @ + 1]
    /\ \E D \in SUBSET (1..Len(Cur.tags)) :
          /\ D # 1..Len(Cur.tags)
          /\ StartRun(D, FALSE)
    /\ UNCHANGED <<queue, router, routed, main>>

\* ------------------------------------------------------------------ run()
Cancelled(pc) == IF pc = "failed" THEN pc ELSE "cancelled"

\* MainRunner.run, a worker has ended with an exception: the gather raises
\* it into the except block, whose loop takes the router first.  Awaiting a
\* worker that ended with an exception raises that exception again, which is
\* no CancelledError and leaves run(): with the router failed, at once; with
\* only the pump failed, after the router was cancelled and awaited
RunExit ==
    /\ main = "running"
    /\ pump.pc = "failed" \/ router.pc = "failed"
    /\ main' = "exited"
    /\ router' = IF router.pc = "failed" THEN router ELSE [router EXCEPT !.pc = "cancelled"]
    /\ UNCHANGED <<events, rc, run_map, handles, tables, pool, callbacks, queue, pump, routed, budget>>

\* MainRunner.run is cancelled from outside: the gather cancels both workers,
\* the except block awaits them, and the final teardown over the pool begins.
\* The cancellation is one of the external failures of the behaviour; it
\* arrives while the pump sleeps and the router waits on the empty queue, and
\* the executors produce no further batch from then on
RunCancelled ==
    /\ main = "running"
    /\ pump.pc = "sleep" /\ router.pc = "idle" /\ queue = <<>>
    /\ budget.faults < MaxFaults
    /\ main' = "cleanup"
    /\ pump' = [pump EXCEPT !.pc = "cancelled"]
    /\ router' = [router EXCEPT !.pc = "cancelled"]
    /\ budget' = [budget EXCEPT !.emit = MaxEmit, !.faults = @ + 1]
    /\ UNCHANGED <<events, rc, run_map, handles, tables, pool, callbacks, queue, routed>>

Pooled == UNION {pool[n] : n \in DOMAIN pool}
\* the handle whose stop() the final teardown awaits, if any
FinalStop == {h \in Pooled : handles[h].stop \in {"pending", "awaiting"}}

\* the final teardown, one turn of its loop over the pool:
\* await asyncio.shield(executor.stop()) for the next handle
RunCleanupStop ==
    /\ main = "cleanup" /\ FinalStop = {}
    /\ \A h \in Pooled : handles[h].stop # "raised"
    /\ \E h \in Pooled :
          /\ handles[h].stop = "none"
          /\ handles' = [handles EXCEPT ![h].stop = "pending"]
    /\ UNCHANGED <<events, rc, run_map, tables, pool, callbacks, queue, router, pump, routed, main, budget>>

\* the final teardown is over, or a stop() raised out of it: run() re-raises
RunCleanupExit ==
    /\ main = "cleanup" /\ FinalStop = {}
    /\ \/ \A h \in Pooled : handles[h].stop = "done"
       \/ \E h \in Pooled : handles[h].stop = "raised"
    /\ main' = "exited"
    /\ UNCHANGED <<events, rc, run_map, handles, tables, pool, callbacks, queue, router, pump, routed, budget>>

\* main: asyncio.run(amain()) cancels every task that is left when run() has
\* raised, and closes the loop
LoopClose ==
    /\ main = "exited"
    /\ main' = "closed"
    /\ pump' = [pump EXCEPT !.pc = Cancelled(@)]
    /\ router' = [router EXCEPT !.pc = Cancelled(@)]
    /\ handles' = [h \in DOMAIN handles |->
                     [handles[h] EXCEPT !.reader = IF @ = "running" THEN "cancelled" ELSE @,
                                        !.stop = IF @ \in {"pending", "awaiting"} THEN "cancelled" ELSE @]]
    /\ UNCHANGED <<events, rc, run_map, tables, pool, callbacks, queue, routed, budget>>

Run == RunExit \/ RunCancelled \/ RunCleanupStop \/ RunCleanupExit \/ LoopClose

\* ------------------------------------------------------------------ specification
Pump ==
    \/ PumpWake \/ PumpSweepRaises \/ PumpSweepResume
    \/ PumpHeartbeat \/ PumpUnknownRun \/ PumpBroadcast \/ PumpStartDuplicate
    \/ PumpStartUnknownTag \/ PumpStartStopResume \/ PumpStartFails
    \/ PumpStartSpawn \/ PumpStartRun \/ PumpStartDispatchFails

Router ==
    \/ RouterRead \/ RouterNoMatch \/ RouterAggMatch \/ RouterAggResume
    \/ RouterStateMatch \/ RouterArtifactMatch \/ RouterArtifactResume

Stop == StopFirstStep \/ \E h \in DOMAIN handles : StopExecutor(h)

Reader == \E h \in DOMAIN handles : ReaderPut(h) \/ ReaderFail(h)

Next ==
    \/ BackendCreate
    \/ Run
    \/ Pump
    \/ Router
    \/ Stop
    \/ Reader

Spec == Init /\ [][Next]_vars

\* ------------------------------------------------------------------ properties
Aggregators == {cb \in DOMAIN callbacks : callbacks[cb].kind = "agg"}
InNoTable(cb) == HoldersOf(tables, cb) = {}
\* the updates the backend has received for event e from sender `by`
UpdatesBy(e, by) == {i \in DOMAIN events[e].updates : events[e].updates[i].by = by}
AllCompleted(s) == \A i \in DOMAIN s : s[i] = "COMPLETED"

\* C1: an aggregator of arity N sends its backend update at its Nth matched
\* executor update and not before, it sends at most once, the backend has
\* received no more aggregated updates for an event than aggregators have
\* sent, and once the aggregator's callback has returned from the send the
\* aggregator is in no table of any handle.
C1_AggregatorArity ==
    /\ \A cb \in Aggregators :
        /\ callbacks[cb].sent <= 1
        /\ Len(callbacks[cb].inputs) = callbacks[cb].received_updates
        /\ callbacks[cb].sent = 1 <=> callbacks[cb].received_updates = callbacks[cb].runners
        /\ callbacks[cb].sent = 1 /\ router.cb # cb => InNoTable(cb)
    /\ \A e \in DOMAIN events :
        Cardinality(UpdatesBy(e, "agg")) =
            Cardinality({cb \in Aggregators : callbacks[cb].event_id = e /\ callbacks[cb].sent = 1})

\* an aggregator over two handles has matched two updates, has sent, has
\* returned, and is gone from the tables
C1_Witness ==
    \E cb \in Aggregators :
        /\ callbacks[cb].runners = 2 /\ callbacks[cb].received_updates = 2
        /\ callbacks[cb].sent = 1 /\ router.pc = "idle" /\ InNoTable(cb)

\* C2: the status of the update an aggregator has sent is COMPLETED if every
\* executor update it matched was COMPLETED and ERROR otherwise, whatever the
\* order in which the updates arrived, and that is the status the backend got.
C2_StatusComposition ==
    \A cb \in Aggregators :
        callbacks[cb].sent = 1 =>
            /\ callbacks[cb].status = IF AllCompleted(callbacks[cb].inputs) THEN "COMPLETED" ELSE "ERROR"
            /\ \E i \in UpdatesBy(callbacks[cb].event_id, "agg") :
                  events[callbacks[cb].event_id].updates[i].status = callbacks[cb].status

\* an aggregator over two handles has sent ERROR after an ERROR update
\* followed by a COMPLETED one
C2_Witness ==
    \E cb \in Aggregators :
        /\ callbacks[cb].sent = 1 /\ callbacks[cb].inputs = <<"ERROR", "COMPLETED">>
        /\ callbacks[cb].status = "ERROR"
\* the step a router takes when it dequeues a batch
Dequeue == Len(queue') < Len(queue)
\* what the backend and the originating executor show when the event of batch
\* b went to the backend in this step, once: an update is one more update of
\* the event, sent by the router; what a create or a query returns is read
\* back to the executor
ForwardedOnce(b) ==
    IF b.etype = "ApiEventUpdate"
    THEN /\ events'[b.ev.id].updates = Append(events[b.ev.id].updates, [by |-> "router", status |-> b.ev.status])
         /\ handles' = handles
    ELSE /\ handles'[b.h].readbacks = handles[b.h].readbacks + 1
         /\ events' = events
NotForwarded(b) ==
    /\ \A h \in DOMAIN handles : handles'[h].readbacks = handles[h].readbacks
    /\ \A e \in DOMAIN events : UpdatesBy(e, "router")' = UpdatesBy(e, "router")

\* C3: an event the router dequeues and hands to _apply_callbacks (a batch of
\* type create, update, delete or query) goes to the backend exactly when no
\* callback of the originating handle's table took it or the callback that
\* took it has passthrough() true; it goes there once; and no callback but
\* the one that took it changes.
C3_Passthrough ==
    [][Dequeue /\ Head(queue).etype # "ApiEventRead" =>
        LET b == Head(queue)
            T == Takers(b.h, DirOf(b.etype), b.ev)
        IN IF T = {}
           THEN ForwardedOnce(b) /\ callbacks' = callbacks /\ run_map' = run_map
           ELSE /\ routed'.cb \in T
                /\ IF passthrough(callbacks[routed'.cb].kind) THEN ForwardedOnce(b) ELSE NotForwarded(b)
                /\ \A c \in DOMAIN callbacks \ {routed'.cb} : callbacks'[c] = callbacks[c]
                /\ \A r \in DOMAIN run_map : r # callbacks[routed'.cb].run_id => run_map'[r] = run_map[r]
      ]_vars

\* the router has sent an event on whose type has callbacks in the handle's
\* table, none of which took it
C3_Witness ==
    /\ routed.matched = "none" /\ routed.forwarded = 1
    /\ routed.ev.name \in DOMAIN tables[routed.h][DirOf(routed.etype)]
    /\ tables[routed.h][DirOf(routed.etype)][routed.ev.name] # {}

\* C4 as stated: in every state, a run is registered if and only if one of
\* its fragments is below COMPLETED.
C4_RegistryClosure ==
    \A r \in DOMAIN run_map :
        \E f \in DOMAIN run_map[r].fragment_run_state : BelowCompleted(run_map[r].fragment_run_state[f])

\* C4, amended: a run enters the registry with every fragment below COMPLETED
\* and leaves it only when none of its fragments is below COMPLETED; in
\* between, a run whose fragments have all reached COMPLETED or more stays
\* registered until a sweep pops it.
C4_RegistryClosureAtSweep ==
    [][/\ \A r \in DOMAIN run_map \ DOMAIN run_map' :
             \A f \in DOMAIN run_map[r].fragment_run_state :
                 ~BelowCompleted(run_map[r].fragment_run_state[f])
       /\ \A r \in DOMAIN run_map' \ DOMAIN run_map :
             /\ DOMAIN run_map'[r].fragment_run_state # {}
             /\ \A f \in DOMAIN run_map'[r].fragment_run_state :
                   BelowCompleted(run_map'[r].fragment_run_state[f])
      ]_vars

\* a run that was started and dispatched has been popped by a sweep
C4_Witness ==
    /\ run_map = <<>>
    /\ \E h \in DOMAIN handles : handles[h].recv # <<>> /\ handles[h].stop = "done"
\* C5: once a START_RUN has been dispatched to every handle of its run and
\* every one of them has reported COMPLETED for it, the backend has received
\* exactly one update for the start event, and its status is COMPLETED.
C5_StartUpdatedOnce ==
    \A cb \in Aggregators :
        LET e == callbacks[cb].event_id IN
        ( /\ events[e].kind = "START_RUN"
          /\ \A i \in DOMAIN callbacks[cb].handlers : e \in Range(handles[callbacks[cb].handlers[i]].recv)
          /\ callbacks[cb].received_updates = callbacks[cb].runners
          /\ AllCompleted(callbacks[cb].inputs) )
        => events[e].updates = <<[by |-> "agg", status |-> "COMPLETED"]>>

\* the step in which the pump is done with the START_RUN in hand
StartHandled ==
    /\ pump.pc = "handle" \/ (pump.pc = "stopping" /\ pump.ctx = "start")
    /\ Cur.kind = "START_RUN" /\ Cur.run_id \notin DOMAIN run_map
    /\ pump'.todo = Tail(pump.todo)
\* what the pump does for a START_RUN it could not start
ReportsStartError ==
    /\ rc'.update_run = Append(rc.update_run, [run_id |-> Cur.run_id, state |-> "ERROR"])
    /\ \E i \in DOMAIN pump'.updates :
          pump'.updates[i].id = Head(pump.todo) /\ pump'.updates[i].status = "ERROR"

\* C6: when the handling of a START_RUN fails (a call made on its behalf
\* raises, or a fragment names an executor that is not configured), the pump
\* calls update_run(run, ERROR), the start update is in the tick's batch with
\* status ERROR, and the run is not registered once the event is handled.
C6_StartFailure ==
    [][StartHandled /\ (budget'.faults # budget.faults \/ \E i \in DOMAIN Cur.tags : UnknownTag(Cur.tags[i])) =>
        ReportsStartError /\ Cur.run_id \notin DOMAIN run_map'
      ]_vars

\* C7: when the pump is done with a START_RUN whose fragment in hand names an
\* executor that is not configured, every handle spawned for the run before
\* has been stopped (tables empty, reader ended, executor.stop() invoked once)
\* and is out of the pool, update_run(run, ERROR) is called, the start update
\* is ERROR, the run is not registered, and the pump goes on.
C7_UnknownTag ==
    [][StartHandled /\ UnknownTag(SpawnTag) =>
        /\ \A h \in Range(pump.frm) :
              /\ tables'[h] = EmptyTables
              /\ handles'[h].reader # "running"
              /\ handles'[h].stop_calls = 1
              /\ h \notin Pooled'
        /\ ReportsStartError
        /\ Cur.run_id \notin DOMAIN run_map'
        /\ pump'.pc \in {"handle", "sleep"}
      ]_vars

\* the run's state and artifact callbacks are in no table
RunCallbacksRemoved(run) == InNoTable(run.run_state_callback) /\ InNoTable(run.output_artifact_callback)
\* the stop of handle h acts in this step
StopActs(h) == handles'[h].stop # handles[h].stop /\ handles'[h].stop \in {"awaiting", "raised", "done"}

\* C8: when a stop that the sweep created for a handle of a registered run
\* acts (tables cleared and reader cancelled, or executor.stop() invoked), the
\* run's state and artifact callbacks are already in no table; and a run
\* leaves the registry only when the stop of every one of its handles is
\* complete.  (The stops of run()'s final teardown are not the sweep's.)
C8_TeardownOrder ==
    [][\A r \in DOMAIN run_map :
        /\ \A h \in Range(run_map[r].fragment_runner_map) :
              StopActs(h) /\ main # "cleanup" => RunCallbacksRemoved(run_map[r])
        /\ r \notin DOMAIN run_map' =>
              \A h \in Range(run_map[r].fragment_runner_map) :
                  handles[h].stop = "done" /\ handles[h].stop_calls = 1
      ]_vars

\* the sweep's gather over the stops of a two-handle run is complete, the run
\* not popped yet
C8_Witness ==
    /\ pump.pc = "stopping" /\ pump.ctx = "sweep" /\ pump.cur \in DOMAIN run_map
    /\ Cardinality(pump.waiting) = 2
    /\ \A h \in pump.waiting : handles[h].stop = "done"

\* C9: a tick's sweep begins the teardown of a run whose fragments are all at
\* COMPLETED or more and leaves every other run as it is; when the pump comes
\* out of the teardown of a run, the run is out of the registry, its state and
\* artifact callbacks are in no table, its handles are out of the pool and
\* executor.stop() has been invoked exactly once on each.
C9_SweepTearsDown ==
    [][/\ pump.pc = "sleep" /\ pump'.pc \notin {"sleep", "cancelled"} =>
            /\ (\E r \in DOMAIN run_map : Finished(run_map[r])) =>
                  pump'.pc = "stopping" /\ Finished(run_map[pump'.cur])
            /\ \A r \in DOMAIN run_map : ~Finished(run_map[r]) =>
                  /\ r \in DOMAIN run_map' /\ run_map'[r] = run_map[r]
                  /\ \A h \in Range(run_map[r].fragment_runner_map) :
                        handles'[h] = handles[h] /\ tables'[h] = tables[h] /\ h \in Pooled'
       /\ pump.pc = "stopping" /\ pump.ctx = "sweep" /\ pump'.pc \notin {"stopping", "cancelled"} =>
            /\ pump.cur \notin DOMAIN run_map'
            /\ RunCallbacksRemoved(run_map[pump.cur])'
            /\ \A h \in Range(run_map[pump.cur].fragment_runner_map) :
                  h \notin Pooled' /\ handles'[h].stop_calls = 1
      ]_vars

\* C10: when the pump is done with a KILL or SIMULATION_STATUS of a run that
\* is not registered, the tick's batch holds one more update, CANCELLED, for
\* the event and no other update for it, no callback is constructed or
\* installed, and no executor is sent anything.
C10_UnknownRunCancelled ==
    [][/\ Handling({"KILL", "SIMULATION_STATUS"}) /\ Cur.run_id \notin DOMAIN run_map
       /\ pump'.todo = Tail(pump.todo)
       => /\ pump'.updates = Append(pump.updates, TickUpdate(Head(pump.todo), "CANCELLED", 0))
          /\ \A i \in DOMAIN pump.updates : pump.updates[i].id # Head(pump.todo)
          /\ callbacks' = callbacks /\ tables' = tables
          /\ handles' = handles
      ]_vars

\* the batch of the tick holds the CANCELLED update of a KILL or
\* SIMULATION_STATUS while an executor with a running reader exists
C10_Witness ==
    /\ \E i \in DOMAIN pump.updates :
          /\ pump.updates[i].status = "CANCELLED"
          /\ events[pump.updates[i].id].kind \in {"KILL", "SIMULATION_STATUS"}
    /\ \E h \in DOMAIN handles : handles[h].reader = "running"
\* C11: in every state, the keys of a registered run's fragment_run_state are
\* the keys of its fragment_runner_map, whatever run_fragment_id the state
\* events that its state callback took carried.
C11_StateKeysFixed ==
    \A r \in DOMAIN run_map :
        DOMAIN run_map[r].fragment_run_state = DOMAIN run_map[r].fragment_runner_map
\* the batches of handle h that are on queue q, in their order
RECURSIVE QueueOf(_, _)
QueueOf(q, h) ==
    IF q = <<>> THEN <<>>
    ELSE (IF Head(q).h = h THEN <<Head(q)>> ELSE <<>>) \o QueueOf(Tail(q), h)

C13_StopSequence ==
    \A h \in DOMAIN handles :
        /\ handles[h].stop_calls > 0 => tables[h] = EmptyTables /\ handles[h].reader # "running"
        /\ handles[h].stop \in {"done", "raised"} =>
              /\ tables[h] = EmptyTables
              /\ handles[h].reader # "running"
              /\ handles[h].stop_calls = 1
\* C14: when run() has left through its except block, executor.stop() has
\* been invoked on every handle that is in the pool.
C14_CleanupStopsPool ==
    main \in {"exited", "closed"} => \A h \in Pooled : handles[h].stop_calls = 1

Terminated(pc) == pc \in {"failed", "cancelled"}

\* C15: the final teardown of run() runs only with both workers ended, and
\* once run() has exited neither the pump nor the router is still running.
C15_WorkersEnded ==
    main \in {"cleanup", "exited", "closed"} => Terminated(pump.pc) /\ Terminated(router.pc)
\* C16: when the router dequeues a batch of type ApiEventRead, the router
\* task ends with an error, and nothing of the batch reaches the backend, an
\* executor, a callback or the registry.
C16_ReadIsFatal ==
    [][Dequeue /\ Head(queue).etype = "ApiEventRead" =>
        /\ router'.pc = "failed"
        /\ events' = events /\ rc' = rc /\ handles' = handles
        /\ callbacks' = callbacks /\ tables' = tables /\ run_map' = run_map
      ]_vars

\* the router has ended on a batch of type ApiEventRead that came from the
\* executor of a registered run
C16_Witness ==
    /\ routed.etype = "ApiEventRead" /\ router.pc = "failed"
    /\ handles[routed.h].run \in DOMAIN run_map
\* the step in which an exception comes out of _start_run
StartRaises ==
    \/ /\ Handling({"START_RUN"}) /\ Cur.run_id \notin DOMAIN run_map
       /\ pump' # pump /\ pump'.pc # "cancelled"
       /\ budget'.faults # budget.faults \/ (UnknownTag(SpawnTag) /\ pump.frm = <<>>)
    \/ /\ pump.pc = "stopping" /\ pump.ctx = "start"
       /\ pump'.pc \notin {"stopping", "cancelled"}
\* every update of the pump's batch is the last update the backend got for its event
BatchSent ==
    \A i \in DOMAIN pump.updates :
        LET u == events[pump.updates[i].id].updates
        IN u # <<>> /\ u[Len(u)] = [by |-> "pump", status |-> pump.updates[i].status]

\* C17: an exception that comes out of _start_run does not end the pump: the
\* pump goes on to the next event fetched in the tick if there is one, and
\* after the last it sends the tick's batch with one update_events call and
\* sleeps until the next tick.
C17_StartErrorContained ==
    [][StartRaises =>
        /\ pump'.todo = Tail(pump.todo)
        /\ IF Tail(pump.todo) # <<>>
           THEN pump'.pc = "handle"
           ELSE /\ pump'.pc = "sleep"
                /\ rc'.update_events = rc.update_events + 1
                /\ BatchSent'
      ]_vars

\* a tick whose START_RUN could not be started has gone on to handle the
\* heartbeat fetched with it and has sent both updates
C17_Witness ==
    /\ pump.pc = "sleep" /\ Len(pump.updates) = 2
    /\ events[pump.updates[1].id].kind = "START_RUN" /\ pump.updates[1].status = "ERROR"
    /\ events[pump.updates[2].id].kind = "heartbeat" /\ pump.updates[2].status = "COMPLETED"
    /\ BatchSent
    /\ rc.update_run # <<>>
\* a step of the pump itself (not its cancellation, and not the router's
\* write through an update object that the pump's batch shares)
PumpStep == pump' # pump /\ pump'.pc # "cancelled" /\ ~Dequeue

\* the step that ends a tick: from the handling of its events, or from a
\* sweep after which nothing was fetched, into the sleep
TickEnd == pump.pc # "sleep" /\ pump'.pc = "sleep"

\* C18: handling a fetched heartbeat calls send_heartbeat() once and puts its
\* update, COMPLETED, into the batch of the tick; the pump calls
\* update_events once at the end of a tick whose batch is not empty, with
\* that batch, and at no other point of a tick.
C18_HeartbeatAndBatch ==
    [][/\ Handling({"heartbeat"}) /\ PumpStep =>
            /\ rc'.heartbeats = rc.heartbeats + 1
            /\ pump'.updates = Append(pump.updates, TickUpdate(Head(pump.todo), "COMPLETED", 0))
       /\ PumpStep /\ ~Handling({"heartbeat"}) => rc'.heartbeats = rc.heartbeats
       /\ PumpStep /\ TickEnd =>
            /\ rc'.update_events = rc.update_events + (IF pump'.updates # <<>> THEN 1 ELSE 0)
            /\ BatchSent'
       /\ PumpStep /\ ~TickEnd => rc'.update_events = rc.update_events
      ]_vars

\* a tick that fetched two heartbeats has called send_heartbeat() twice and
\* update_events once, with both updates
C18_Witness ==
    /\ pump.pc = "sleep" /\ Len(pump.updates) = 2
    /\ \A i \in 1..2 : events[pump.updates[i].id].kind = "heartbeat" /\ pump.updates[i].status = "COMPLETED"
    /\ rc.heartbeats = 2 /\ rc.update_events = 1
    /\ BatchSent
\* the start bundle fragment i of the START_RUN e is to get
ExpectedStart(e, i) ==
    [id |-> e, fragments |-> <<i>>,
     inst_input_artifact |-> IF events[e].inst_paths THEN b64encode(InstArtifact(e)) ELSE NoArtifact]

\* C19: the handling of a START_RUN calls get_inst_input_artifact_raw once,
\* before its first fragment, if the instantiation declares input artifact
\* paths, and never otherwise; the bundle dispatched to a fragment's handle
\* lists that fragment only and embeds, encoded, the artifact that was
\* fetched; a handle gets at most one start bundle, and every handle of the
\* run gets one when the dispatch raises nothing.
C19_StartBundles ==
    [][/\ rc'.inst_fetches = rc.inst_fetches +
              (IF /\ PumpStep /\ Handling({"START_RUN"}) /\ Cur.run_id \notin DOMAIN run_map
                  /\ pump.frm = <<>> /\ Cur.inst_paths
               THEN 1 ELSE 0)
       /\ \A h \in DOMAIN handles : handles'[h].start # handles[h].start =>
            handles[h].start = <<>> /\ handles[h].run \in DOMAIN run_map' \ DOMAIN run_map
       /\ \A r \in DOMAIN run_map' \ DOMAIN run_map :
            LET frm == run_map'[r].fragment_runner_map
                e == Head(pump.todo)
            IN \A i \in DOMAIN frm :
                  /\ handles'[frm[i]].start \in {<<>>, <<ExpectedStart(e, i)>>}
                  /\ rc'.update_run = rc.update_run => handles'[frm[i]].start = <<ExpectedStart(e, i)>>
                  /\ handles'[frm[i]].start # <<>> /\ events[e].inst_paths =>
                        b64decode(handles'[frm[i]].start[1].inst_input_artifact) = InstArtifact(e)
      ]_vars

\* both handles of a run hold their start bundle with the one artifact
\* fetched for the run
C19_Witness ==
    /\ rc.inst_fetches = 1
    /\ \E r \in DOMAIN run_map :
          /\ Len(run_map[r].fragment_runner_map) = 2
          /\ \A i \in 1..2 :
                LET st == handles[run_map[r].fragment_runner_map[i]].start
                IN /\ Len(st) = 1 /\ st[1].fragments = <<i>>
                   /\ st[1].inst_input_artifact = b64encode(InstArtifact(st[1].id))
\* C20: once remove_callback() has been called on a callback (here: by an
\* aggregator that has sent and returned, over handles that were never
\* stopped), the callback is in none of the tables it was inserted into, and
\* a second remove_callback() on it raises nothing and leaves the tables as
\* they are.
C20_RemoveIdempotent ==
    \A cb \in Aggregators :
        ( /\ callbacks[cb].sent = 1 /\ router.cb # cb
          /\ \A h \in Range(callbacks[cb].handlers) : handles[h].stop = "none" )
        => /\ InNoTable(cb)
           /\ remove_callback(tables, cb).ok
           /\ remove_callback(tables, cb).tables = tables
\* the assert at the entry of BundleUpdatesEventCallback.callback has failed
AssertFailed == router.pc = "failed" /\ router.cb # 0

\* C21: no aggregator has matched more updates than it has runners and the
\* assert at the entry of its callback never fails; an aggregator that has
\* matched its last update is in a table only while the router is still
\* inside its callback (awaiting the backend update, or cancelled there), and
\* every update an aggregator takes finds it below its arity.
C21_AggregatorBounded ==
    /\ [](/\ ~AssertFailed
          /\ \A cb \in Aggregators :
                /\ callbacks[cb].received_updates <= callbacks[cb].runners
                /\ callbacks[cb].received_updates = callbacks[cb].runners /\ ~InNoTable(cb) =>
                      router.cb = cb /\ router.pc \in {"agg_await", "cancelled"})
    /\ [][Dequeue /\ routed'.matched = "agg" =>
            /\ callbacks[routed'.cb].received_updates < callbacks[routed'.cb].runners
            /\ callbacks'[routed'.cb].received_updates = callbacks[routed'.cb].received_updates + 1
         ]_vars

\* the router awaits the backend update of an aggregator that has matched its
\* last update and is still in its tables, while the next batch on the queue
\* is another update for the same event from one of the aggregator's handles
C21_Witness ==
    /\ router.pc = "agg_await" /\ ~InNoTable(router.cb)
    /\ callbacks[router.cb].received_updates = callbacks[router.cb].runners
    /\ queue # <<>>
    /\ Head(queue).etype = "ApiEventUpdate"
    /\ Head(queue).ev.id = callbacks[router.cb].event_id
    /\ Head(queue).h \in Range(callbacks[router.cb].handlers)
\* C22: the router never ends with an error because of what the pump's sweep
\* did while the router was suspended inside a callback: when the router
\* comes out of the await of an aggregator's backend update it goes on to the
\* next batch, and the only error that ends the router is the one raised for
\* a batch of type ApiEventRead.
C22_SweepSafeRouter ==
    /\ [](router.pc = "failed" => routed.etype = "ApiEventRead")
    /\ [][router.pc = "agg_await" /\ router'.pc \notin {"agg_await", "cancelled"} => router'.pc = "idle"]_vars
\* C23: when the pump handles a START_RUN whose run is registered, no handle
\* is spawned, no callback is constructed or installed, no executor is sent
\* anything, the pool and the registry (with the run's entry and fragment
\* states) stay as they are, no update_run is called, and the tick's batch
\* holds one more update, CANCELLED, for the event; the batch that ends the
\* tick carries it to the backend.
C23_DuplicateStart ==
    [][Handling({"START_RUN"}) /\ Cur.run_id \in DOMAIN run_map /\ PumpStep =>
        /\ handles' = handles /\ pool' = pool
        /\ callbacks' = callbacks /\ tables' = tables
        /\ run_map' = run_map
        /\ rc'.update_run = rc.update_run /\ rc'.inst_fetches = rc.inst_fetches
        /\ pump'.todo = Tail(pump.todo)
        /\ pump'.updates = Append(pump.updates, TickUpdate(Head(pump.todo), "CANCELLED", 0))
        /\ TickEnd => BatchSent'
      ]_vars

\* the tick's batch holds the CANCELLED update of a START_RUN whose run is
\* registered, with an executor of the run that holds its start bundle and
\* is still read from
C23_Witness ==
    \E i \in DOMAIN pump.updates :
        LET e == pump.updates[i].id IN
        /\ pump.updates[i].status = "CANCELLED"
        /\ events[e].kind = "START_RUN"
        /\ events[e].run_id \in DOMAIN run_map
        /\ \E h \in Range(run_map[events[e].run_id].fragment_runner_map) :
              handles[h].reader = "running" /\ handles[h].start # <<>>
\* C24: for every KILL or SIMULATION_STATUS event, over all the ticks of a
\* behaviour, at most one aggregator for the event is installed in the update
\* tables and no executor has been sent the event more than once.
C24_BroadcastOnce ==
    \A e \in DOMAIN events :
        events[e].kind \in {"KILL", "SIMULATION_STATUS"} =>
            /\ Cardinality({cb \in Aggregators : callbacks[cb].event_id = e /\ ~InNoTable(cb)}) <= 1
            /\ \A h \in DOMAIN handles : Count(handles[h].recv, e) <= 1
\* the registered runs whose fragment map holds handle h
OwnersOf(h) == {r \in DOMAIN run_map : h \in Range(run_map[r].fragment_runner_map)}

\* C25: whenever the pump sleeps between two ticks, every handle of the pool
\* is in the fragment map of exactly one registered run, every handle of a
\* registered run's fragment map is in the pool, and every handle whose
\* reader task is live has an owning run.
C25_PoolMatchesRegistry ==
    pump.pc = "sleep" =>
        /\ \A h \in Pooled : Cardinality(OwnersOf(h)) = 1
        /\ \A r \in DOMAIN run_map : Range(run_map[r].fragment_runner_map) \subseteq Pooled
        /\ \A h \in DOMAIN handles : handles[h].reader = "running" => OwnersOf(h) # {}
====
